---- MODULE Spec2Model ----
(***************************************************************************)
(* A model of server.js (mern-stack-challenge): the month-scoped reporting *)
(* API over the ProductTransaction collection.                             *)
(*                                                                         *)
(* Time is counted in whole hours since 00:00 UTC on 1 January of          *)
(* EpochYear.  Months are numbered 0..11 inside the Date arithmetic, as    *)
(* JavaScript numbers them.  A month selector "YYYY-MM" is the record      *)
(* [y |-> YYYY, m |-> MM] with MM in 1..12.  Text is a sequence of         *)
(* one-character strings.                                                  *)
(***************************************************************************)
EXTENDS Integers, Sequences, FiniteSets, TLC

VARIABLES
    tz,     \* the server process's offset from UTC, in hours (its TZ)
    store,  \* the ProductTransaction collection, in natural order
    seed,   \* the GET /api/init request
    txn,    \* the GET /api/transactions request
    stats,  \* the GET /api/statistics request
    bar,    \* the GET /api/bar-chart request
    pie,    \* the GET /api/pie-chart request
    comb    \* the GET /api/combined-data request

vars == <<tz, store, seed, txn, stats, bar, pie, comb>>

(***************************************************************************)
(* Bounds of the model.                                                    *)
(***************************************************************************)
FirstYear == 2021      \* the first year a month selector names
NumYears == 2          \* the number of years month selectors range over
MaxStore == 2          \* the most records a checked collection holds
MaxSearchLen == 2      \* the longest search text tried
MaxPage == 3           \* the largest page and perPage tried
MaxInitRuns == 1       \* the most /api/init runs in one behaviour

EpochYear == FirstYear - 1
TimeZones == {-5, 0, 9}    \* e.g. America/Bogota, UTC, Asia/Tokyo (no DST)
Months == [y : FirstYear..(FirstYear + NumYears - 1), m : 1..12]

(***************************************************************************)
(* Date: ECMAScript's day and month arithmetic, as new Date, getMonth and  *)
(* setMonth use it.                                                        *)
(***************************************************************************)
IsLeap(y) == (y % 4 = 0 /\ y % 100 # 0) \/ y % 400 = 0

DaysInYear(y) == IF IsLeap(y) THEN 366 ELSE 365

DaysInMonth(y, m) ==
    IF m = 1 THEN (IF IsLeap(y) THEN 29 ELSE 28)
    ELSE IF m \in {3, 5, 8, 10} THEN 30 ELSE 31

RECURSIVE DayFromYear(_)
DayFromYear(y) ==
    IF y <= EpochYear THEN 0 ELSE DayFromYear(y - 1) + DaysInYear(y - 1)

RECURSIVE DayWithinYear(_, _)
DayWithinYear(y, m) ==
    IF m = 0 THEN 0 ELSE DayWithinYear(y, m - 1) + DaysInMonth(y, m - 1)

\* MakeDay(year, month, date): month may exceed 11 and date may exceed the
\* month's length; both carry over.
MakeDay(year, month, date) ==
    LET ym == year + (month \div 12)
        mn == month % 12
    IN  DayFromYear(ym) + DayWithinYear(ym, mn) + date - 1

MakeDate(day, time) == day * 24 + time

Day(t) == t \div 24

TimeWithinDay(t) == t % 24

YearFromTime(t) ==
    CHOOSE y \in EpochYear..(FirstYear + NumYears + 1) :
        DayFromYear(y) <= Day(t) /\ Day(t) < DayFromYear(y + 1)

MonthFromTime(t) ==
    LET y == YearFromTime(t)
        d == Day(t) - DayFromYear(y)
    IN  CHOOSE m \in 0..11 :
            DayWithinYear(y, m) <= d /\ d < DayWithinYear(y, m) + DaysInMonth(y, m)

DateFromTime(t) ==
    LET y == YearFromTime(t)
    IN  Day(t) - DayFromYear(y) - DayWithinYear(y, MonthFromTime(t)) + 1

LocalTime(t, zone) == t + zone

UTC(t, zone) == t - zone

\* new Date(`${month}-01`): a date-only ISO string is UTC midnight.
ParseDate(month) == MakeDate(MakeDay(month.y, month.m - 1, 1), 0)

\* Date.prototype.getMonth: the month of the LOCAL time.
GetMonth(t, zone) == MonthFromTime(LocalTime(t, zone))

\* Date.prototype.setMonth(m): replaces the month of the LOCAL time, keeping
\* the local day of the month and time of day.
SetMonth(t, m, zone) ==
    LET lt == LocalTime(t, zone)
    IN  UTC(MakeDate(MakeDay(YearFromTime(lt), m, DateFromTime(lt)),
                     TimeWithinDay(lt)), zone)

\* const startDate = new Date(`${month}-01`)
StartDate(month) == ParseDate(month)

\* const endDate = new Date(startDate); endDate.setMonth(endDate.getMonth() + 1)
EndDate(month, zone) ==
    SetMonth(StartDate(month), GetMonth(StartDate(month), zone) + 1, zone)

\* the instant y-m-d h:00 UTC (m in 1..12), for writing record dates
At(y, m, d, h) == MakeDate(MakeDay(y, m - 1, d), h)

\* the selector of the month after `month`
NextMonth(month) ==
    IF month.m = 12 THEN [y |-> month.y + 1, m |-> 1]
    ELSE [y |-> month.y, m |-> month.m + 1]

(***************************************************************************)
(* Text.  Search texts are drawn from SearchAlphabet: letters and digits,  *)
(* none of them a regular-expression metacharacter, a sign, a point or an  *)
(* exponent mark.                                                          *)
(***************************************************************************)
SearchAlphabet == {"0", "2", "a", "A"}

RECURSIVE TextsUpTo(_)
TextsUpTo(n) ==
    IF n = 0 THEN {<<>>}
    ELSE LET shorter == TextsUpTo(n - 1)
         IN  shorter \cup {Append(t, c) : t \in shorter, c \in SearchAlphabet}

SearchTexts == TextsUpTo(MaxSearchLen)

Lower(c) == IF c = "A" THEN "a" ELSE IF c = "B" THEN "b" ELSE c

\* new RegExp(search, 'i').test(text), for a pattern of literal characters:
\* some substring of text equals the pattern, case ignored.
RegexTest(pattern, text) ==
    \E i \in 0..(Len(text) - Len(pattern)) :
        \A j \in 1..Len(pattern) : Lower(pattern[j]) = Lower(text[i + j])

IsDigit(c) == c \in {"0", "1", "2", "3", "4", "5", "6", "7", "8", "9"}

DigitValue(c) ==
    CASE c = "0" -> 0 [] c = "1" -> 1 [] c = "2" -> 2 [] c = "3" -> 3
      [] c = "4" -> 4 [] c = "5" -> 5 [] c = "6" -> 6 [] c = "7" -> 7
      [] c = "8" -> 8 [] c = "9" -> 9

RECURSIVE DigitPrefix(_, _, _)
DigitPrefix(s, i, acc) ==
    IF i > Len(s) \/ ~IsDigit(s[i]) THEN [read |-> i - 1, val |-> acc]
    ELSE DigitPrefix(s, i + 1, acc * 10 + DigitValue(s[i]))

\* parseFloat(s) over SearchAlphabet: the value of the longest leading run of
\* digits, NaN when s does not start with a digit.
ParseFloat(s) ==
    LET p == DigitPrefix(s, 1, 0)
    IN  IF p.read = 0 THEN [nan |-> TRUE, val |-> 0]
        ELSE [nan |-> FALSE, val |-> p.val]

\* parseFloat(search) || -1: NaN and 0 are both falsy.
PriceOperand(search) ==
    LET f == ParseFloat(search)
    IN  IF f.nan \/ f.val = 0 THEN -1 ELSE f.val

(***************************************************************************)
(* The collection and its queries.                                         *)
(***************************************************************************)
\* dateOfSale: { $gte: startDate, $lt: endDate }
InWindow(r, startDate, endDate) ==
    r.dateOfSale >= startDate /\ r.dateOfSale < endDate

\* the filter of find and of countDocuments in /api/transactions
TxnMatches(r, startDate, endDate, search) ==
    /\ InWindow(r, startDate, endDate)
    /\ \/ RegexTest(search, r.title)
       \/ RegexTest(search, r.description)
       \/ r.price = PriceOperand(search)

TxnMatching(coll, startDate, endDate, search) ==
    LET Hit(r) == TxnMatches(r, startDate, endDate, search)
    IN  SelectSeq(coll, Hit)

\* cursor.skip(n), n >= 0
Skip(s, n) == SubSeq(s, n + 1, Len(s))

\* cursor.limit(n): 0 is no limit, a negative n limits to -n
Limit(s, n) ==
    LET k == IF n < 0 THEN 0 - n ELSE n
    IN  IF k = 0 \/ k >= Len(s) THEN s ELSE SubSeq(s, 1, k)

DefaultPage == 1
DefaultPerPage == 10

\* the variant of SkipOf that takes pages as numbered from 0
SkipOfPage(page, perPage) == page * perPage

\* .skip((page - 1) * perPage)
SkipOf(page, perPage) == (page - 1) * perPage

\* .limit(parseInt(perPage))
LimitOf(perPage) == perPage

(***************************************************************************)
(* GET /api/transactions                                                   *)
(***************************************************************************)
NoMonth == [y |-> 0, m |-> 0]

TxnIdle ==
    [pc |-> "idle", month |-> NoMonth, search |-> <<>>,
     page |-> DefaultPage, perPage |-> DefaultPerPage,
     startDate |-> 0, endDate |-> 0, skip |-> 0, limit |-> 0,
     transactions |-> <<>>, total |-> 0, status |-> 0]

\* the handler up to its first await: the window is resolved and the find
\* is issued with its skip and its limit
TxnBegin(month, search, page, perPage) ==
    [TxnIdle EXCEPT !.pc = "find", !.month = month, !.search = search,
                    !.page = page, !.perPage = perPage,
                    !.startDate = StartDate(month),
                    !.endDate = EndDate(month, tz),
                    !.skip = SkipOf(page, perPage),
                    !.limit = LimitOf(perPage)]

TxnError(t) == [t EXCEPT !.pc = "done", !.status = 500,
                         !.transactions = <<>>, !.total = 0]

\* find(...).skip(...).limit(...) answered by the store, which rejects a
\* negative skip; then countDocuments is issued
TxnFound(t, coll) ==
    IF t.skip < 0 THEN TxnError(t)
    ELSE [t EXCEPT
            !.pc = "count",
            !.transactions =
                Limit(Skip(TxnMatching(coll, t.startDate, t.endDate, t.search),
                           t.skip), t.limit)]

\* countDocuments(...) answered by the store, then res.status(200).json
TxnCounted(t, coll) ==
    [t EXCEPT !.pc = "done", !.status = 200,
              !.total = Len(TxnMatching(coll, t.startDate, t.endDate, t.search))]

TxnRequest(month, search, page, perPage) ==
    /\ txn.pc = "idle"
    /\ txn' = TxnBegin(month, search, page, perPage)
    /\ UNCHANGED <<tz, store, seed, stats, bar, pie, comb>>

TxnFind ==
    /\ txn.pc = "find"
    /\ txn' = TxnFound(txn, store)
    /\ UNCHANGED <<tz, store, seed, stats, bar, pie, comb>>

TxnCount ==
    /\ txn.pc = "count"
    /\ txn' = TxnCounted(txn, store)
    /\ UNCHANGED <<tz, store, seed, stats, bar, pie, comb>>

\* a store call throws: catch, res.status(500)
TxnFails ==
    /\ txn.pc \in {"find", "count"}
    /\ txn' = TxnError(txn)
    /\ UNCHANGED <<tz, store, seed, stats, bar, pie, comb>>

(***************************************************************************)
(* GET /api/statistics                                                     *)
(***************************************************************************)
RECURSIVE SumPrice(_)
SumPrice(s) == IF s = <<>> THEN 0 ELSE Head(s).price + SumPrice(Tail(s))

\* { $match: {dateOfSale in window, sold: true} }, { $group: {_id: null,
\* total: {$sum: "$price"}} }: one group when a record matches, none otherwise
AggregateSale(coll, startDate, endDate) ==
    LET Hit(r) == InWindow(r, startDate, endDate) /\ r.sold = TRUE
        hits == SelectSeq(coll, Hit)
    IN  IF hits = <<>> THEN <<>> ELSE <<[total |-> SumPrice(hits)]>>

\* countDocuments({dateOfSale in window, sold: true})
CountSold(coll, startDate, endDate) ==
    LET Hit(r) == InWindow(r, startDate, endDate) /\ r.sold = TRUE
    IN  Len(SelectSeq(coll, Hit))

\* the variant of CountNotSold whose filter lacks sold: false
CountNotSoldUnfiltered(coll, startDate, endDate) ==
    LET Hit(r) == InWindow(r, startDate, endDate)
    IN  Len(SelectSeq(coll, Hit))

\* countDocuments({dateOfSale in window, sold: false})
CountNotSold(coll, startDate, endDate) ==
    LET Hit(r) == InWindow(r, startDate, endDate) /\ r.sold = FALSE
    IN  Len(SelectSeq(coll, Hit))

\* totalSaleAmount[0]?.total || 0
SaleAmountOf(groups) == IF groups = <<>> THEN 0 ELSE groups[1].total

StatsIdle ==
    [pc |-> "idle", month |-> NoMonth, startDate |-> 0, endDate |-> 0,
     aggregate |-> <<>>, totalSaleAmount |-> 0, totalSoldItems |-> 0,
     totalNotSoldItems |-> 0, status |-> 0]

StatsBegin(month) ==
    [StatsIdle EXCEPT !.pc = "aggregate", !.month = month,
                      !.startDate = StartDate(month),
                      !.endDate = EndDate(month, tz)]

StatsError(s) ==
    [s EXCEPT !.pc = "done", !.status = 500, !.aggregate = <<>>,
              !.totalSaleAmount = 0, !.totalSoldItems = 0,
              !.totalNotSoldItems = 0]

StatsRequest(month) ==
    /\ stats.pc = "idle"
    /\ stats' = StatsBegin(month)
    /\ UNCHANGED <<tz, store, seed, txn, bar, pie, comb>>

StatsAggregate ==
    /\ stats.pc = "aggregate"
    /\ stats' = [stats EXCEPT
                    !.pc = "countSold",
                    !.aggregate = AggregateSale(store, stats.startDate, stats.endDate)]
    /\ UNCHANGED <<tz, store, seed, txn, bar, pie, comb>>

StatsCountSold ==
    /\ stats.pc = "countSold"
    /\ stats' = [stats EXCEPT
                    !.pc = "countNotSold",
                    !.totalSoldItems = CountSold(store, stats.startDate, stats.endDate)]
    /\ UNCHANGED <<tz, store, seed, txn, bar, pie, comb>>

\* the last count, then res.status(200).json
StatsCountNotSold ==
    /\ stats.pc = "countNotSold"
    /\ stats' = [stats EXCEPT
                    !.pc = "done", !.status = 200,
                    !.totalSaleAmount = SaleAmountOf(stats.aggregate),
                    !.totalNotSoldItems =
                        CountNotSold(store, stats.startDate, stats.endDate)]
    /\ UNCHANGED <<tz, store, seed, txn, bar, pie, comb>>

StatsFails ==
    /\ stats.pc \in {"aggregate", "countSold", "countNotSold"}
    /\ stats' = StatsError(stats)
    /\ UNCHANGED <<tz, store, seed, txn, bar, pie, comb>>

(***************************************************************************)
(* GET /api/bar-chart                                                      *)
(***************************************************************************)
\* max: Infinity is the field open
priceRanges ==
    << [range |-> "0-100",     min |-> 0,   max |-> 100, open |-> FALSE],
       [range |-> "101-200",   min |-> 101, max |-> 200, open |-> FALSE],
       [range |-> "201-300",   min |-> 201, max |-> 300, open |-> FALSE],
       [range |-> "301-400",   min |-> 301, max |-> 400, open |-> FALSE],
       [range |-> "401-500",   min |-> 401, max |-> 500, open |-> FALSE],
       [range |-> "501-600",   min |-> 501, max |-> 600, open |-> FALSE],
       [range |-> "601-700",   min |-> 601, max |-> 700, open |-> FALSE],
       [range |-> "701-800",   min |-> 701, max |-> 800, open |-> FALSE],
       [range |-> "801-900",   min |-> 801, max |-> 900, open |-> FALSE],
       [range |-> "901-above", min |-> 901, max |-> 0,   open |-> TRUE] >>

Buckets == 1..Len(priceRanges)

\* the variant of InRange whose upper bound is $lte
InRangeInclusive(price, range) ==
    price >= range.min /\ (range.open \/ price <= range.max)

\* price: { $gte: range.min, $lt: range.max }
InRange(price, range) ==
    price >= range.min /\ (range.open \/ price < range.max)

\* countDocuments({dateOfSale in window, price in range})
CountInRange(coll, startDate, endDate, range) ==
    LET Hit(r) == InWindow(r, startDate, endDate) /\ InRange(r.price, range)
    IN  Len(SelectSeq(coll, Hit))

Pending == [settled |-> FALSE, range |-> "", count |-> 0]

\* the variant of Settle that keeps the values in the order they arrive
SettleInArrivalOrder(results, i, value) ==
    LET free == CHOOSE k \in DOMAIN results :
                    /\ ~results[k].settled
                    /\ \A l \in DOMAIN results : l < k => results[l].settled
    IN  [results EXCEPT ![free] = value]

\* Promise.all: the value of the i-th promise goes to the i-th place
Settle(results, i, value) == [results EXCEPT ![i] = value]

BarIdle ==
    [pc |-> "idle", month |-> NoMonth, startDate |-> 0, endDate |-> 0,
     results |-> [i \in Buckets |-> Pending], barChartData |-> <<>>,
     status |-> 0]

\* the handler up to its await: all the counts are issued
BarBegin(month) ==
    [BarIdle EXCEPT !.pc = "counting", !.month = month,
                    !.startDate = StartDate(month),
                    !.endDate = EndDate(month, tz)]

BarError(b) ==
    [b EXCEPT !.pc = "done", !.status = 500, !.barChartData = <<>>,
              !.results = [i \in Buckets |-> Pending]]

\* the i-th callback: its count is answered, it returns {range, count}
BarCounted(b, i, coll) ==
    [b EXCEPT !.results =
        Settle(b.results, i,
               [settled |-> TRUE, range |-> priceRanges[i].range,
                count |-> CountInRange(coll, b.startDate, b.endDate,
                                       priceRanges[i])])]

\* Promise.all is fulfilled once every promise is
AllSettled(b) == \A i \in Buckets : b.results[i].settled

\* res.status(200).json(barChartData)
BarResponded(b) ==
    [b EXCEPT !.pc = "done", !.status = 200,
              !.barChartData =
                  [i \in Buckets |->
                      [range |-> b.results[i].range, count |-> b.results[i].count]]]

BarRequest(month) ==
    /\ bar.pc = "idle"
    /\ bar' = BarBegin(month)
    /\ UNCHANGED <<tz, store, seed, txn, stats, pie, comb>>

BarCount(i) ==
    /\ bar.pc = "counting"
    /\ ~bar.results[i].settled
    /\ bar' = BarCounted(bar, i, store)
    /\ UNCHANGED <<tz, store, seed, txn, stats, pie, comb>>

BarRespond ==
    /\ bar.pc = "counting"
    /\ AllSettled(bar)
    /\ bar' = BarResponded(bar)
    /\ UNCHANGED <<tz, store, seed, txn, stats, pie, comb>>

\* a count that is still out throws: Promise.all rejects at once, catch,
\* res.status(500)
BarFails ==
    /\ bar.pc = "counting"
    /\ \E i \in Buckets : ~bar.results[i].settled
    /\ bar' = BarError(bar)
    /\ UNCHANGED <<tz, store, seed, txn, stats, pie, comb>>

(***************************************************************************)
(* GET /api/pie-chart                                                      *)
(***************************************************************************)
\* $match the window, $group by category with a count, $project; the order
\* of the groups is the store's, so the result is kept as a set
CategoryCounts(coll, startDate, endDate) ==
    LET InWin(r) == InWindow(r, startDate, endDate)
        hits == SelectSeq(coll, InWin)
        cats == {hits[i].category : i \in 1..Len(hits)}
    IN  {[category |-> c,
          count |-> Cardinality({i \in 1..Len(hits) : hits[i].category = c})] :
         c \in cats}

PieIdle ==
    [pc |-> "idle", month |-> NoMonth, startDate |-> 0, endDate |-> 0,
     pieChartData |-> {}, status |-> 0]

PieBegin(month) ==
    [PieIdle EXCEPT !.pc = "aggregate", !.month = month,
                    !.startDate = StartDate(month),
                    !.endDate = EndDate(month, tz)]

PieRequest(month) ==
    /\ pie.pc = "idle"
    /\ pie' = PieBegin(month)
    /\ UNCHANGED <<tz, store, seed, txn, stats, bar, comb>>

PieAggregate ==
    /\ pie.pc = "aggregate"
    /\ pie' = [pie EXCEPT
                  !.pc = "done", !.status = 200,
                  !.pieChartData = CategoryCounts(store, pie.startDate, pie.endDate)]
    /\ UNCHANGED <<tz, store, seed, txn, stats, bar, comb>>

PieFails ==
    /\ pie.pc = "aggregate"
    /\ pie' = [pie EXCEPT !.pc = "done", !.status = 500]
    /\ UNCHANGED <<tz, store, seed, txn, stats, bar, comb>>

(***************************************************************************)
(* GET /api/init                                                           *)
(***************************************************************************)
\* what the seed URL serves
SeedData ==
    << [id |-> 1, title |-> <<"a", "b">>, description |-> <<"b">>,
        price |-> 50, dateOfSale |-> At(FirstYear, 3, 10, 12),
        category |-> "men", sold |-> TRUE],
       [id |-> 2, title |-> <<"b", "2">>, description |-> <<"a">>,
        price |-> 150, dateOfSale |-> At(FirstYear, 3, 20, 12),
        category |-> "women", sold |-> FALSE] >>

SeedIdle == [pc |-> "idle", fetched |-> FALSE, data |-> <<>>, status |-> 0,
             runs |-> 0]

InitRequest ==
    /\ seed.pc \in {"idle", "done"}
    /\ seed.runs < MaxInitRuns
    /\ seed' = [SeedIdle EXCEPT !.pc = "fetch", !.runs = seed.runs + 1]
    /\ UNCHANGED <<tz, store, txn, stats, bar, pie, comb>>

\* axios.get resolves: data = response.data, deleteMany is issued
InitFetched ==
    /\ seed.pc = "fetch"
    /\ seed' = [seed EXCEPT !.pc = "delete", !.fetched = TRUE, !.data = SeedData]
    /\ UNCHANGED <<tz, store, txn, stats, bar, pie, comb>>

\* the variant of InitFetchFails in which deleteMany ran before the fetch
InitFetchFailsAfterDelete ==
    /\ seed.pc = "fetch"
    /\ seed' = [seed EXCEPT !.pc = "done", !.status = 500]
    /\ store' = <<>>
    /\ UNCHANGED <<tz, txn, stats, bar, pie, comb>>

\* axios.get rejects: catch, res.status(500)
InitFetchFails ==
    /\ seed.pc = "fetch"
    /\ seed' = [seed EXCEPT !.pc = "done", !.status = 500]
    /\ UNCHANGED <<tz, store, txn, stats, bar, pie, comb>>

\* deleteMany({}) is answered, insertMany is issued
InitDelete ==
    /\ seed.pc = "delete"
    /\ store' = <<>>
    /\ seed' = [seed EXCEPT !.pc = "insert"]
    /\ UNCHANGED <<tz, txn, stats, bar, pie, comb>>

InitDeleteFails ==
    /\ seed.pc = "delete"
    /\ seed' = [seed EXCEPT !.pc = "done", !.status = 500]
    /\ UNCHANGED <<tz, store, txn, stats, bar, pie, comb>>

\* insertMany(data) is answered, res.status(200)
InitInsert ==
    /\ seed.pc = "insert"
    /\ store' = store \o seed.data
    /\ seed' = [seed EXCEPT !.pc = "done", !.status = 200]
    /\ UNCHANGED <<tz, txn, stats, bar, pie, comb>>

\* insertMany throws after k documents went in
InitInsertFails ==
    /\ seed.pc = "insert"
    /\ \E k \in 0..(Len(seed.data) - 1) :
          store' = store \o SubSeq(seed.data, 1, k)
    /\ seed' = [seed EXCEPT !.pc = "done", !.status = 500]
    /\ UNCHANGED <<tz, txn, stats, bar, pie, comb>>

(***************************************************************************)
(* GET /api/combined-data: four requests to this server, one after the     *)
(* other.  axios.get throws on a status that is not 2xx.                   *)
(***************************************************************************)
Parts == <<"transactions", "statistics", "barChart", "pieChart">>

AllParts == {Parts[i] : i \in 1..Len(Parts)}

\* what follows the await of `part`
AfterPart(part) ==
    CASE part = "transactions" -> "statistics"
      [] part = "statistics" -> "barChart"
      [] part = "barChart" -> "pieChart"
      [] part = "pieChart" -> "respond"

CombIdle ==
    [pc |-> "idle", month |-> NoMonth, got |-> {}, failed |-> {},
     transactions |-> [transactions |-> <<>>, total |-> 0],
     statistics |-> [totalSaleAmount |-> 0, totalSoldItems |-> 0,
                     totalNotSoldItems |-> 0],
     barChart |-> <<>>, pieChart |-> {},
     status |-> 0, payload |-> {}]

\* the variant of CombCaught that goes on to the next call
CombCaughtGoesOn(c, part) ==
    [c EXCEPT !.failed = @ \cup {part}, !.pc = AfterPart(part)]

\* catch (error): res.status(500).send('Error fetching combined data')
CombCaught(c, part) ==
    [c EXCEPT !.failed = @ \cup {part}, !.pc = "done", !.status = 500]

\* the awaited response is assigned
CombGot(c, part) == [c EXCEPT !.got = @ \cup {part}, !.pc = AfterPart(part)]

\* res.status(200).json({transactions, statistics, barChart, pieChart}): the
\* payload holds the parts whose response was assigned
CombSettled(c) ==
    IF c.pc = "respond"
    THEN [c EXCEPT !.pc = "done", !.status = 200, !.payload = c.got]
    ELSE c

\* the handler up to its first await; the request reaches /api/transactions
\* with only month in its query
CombRequest(month) ==
    /\ comb.pc = "idle"
    /\ txn.pc = "idle"
    /\ comb' = [CombIdle EXCEPT !.pc = "transactions", !.month = month]
    /\ txn' = TxnBegin(month, <<>>, DefaultPage, DefaultPerPage)
    /\ UNCHANGED <<tz, store, seed, stats, bar, pie>>

CombTransactions ==
    /\ comb.pc = "transactions"
    /\ txn.pc = "done"
    /\ stats.pc = "idle"
    /\ comb' = IF txn.status = 200
               THEN [CombGot(comb, "transactions") EXCEPT
                        !.transactions = [transactions |-> txn.transactions,
                                          total |-> txn.total]]
               ELSE CombCaught(comb, "transactions")
    /\ txn' = TxnIdle
    /\ stats' = IF comb'.pc = "statistics" THEN StatsBegin(comb.month) ELSE stats
    /\ UNCHANGED <<tz, store, seed, bar, pie>>

CombStatistics ==
    /\ comb.pc = "statistics"
    /\ stats.pc = "done"
    /\ bar.pc = "idle"
    /\ comb' = IF stats.status = 200
               THEN [CombGot(comb, "statistics") EXCEPT
                        !.statistics =
                            [totalSaleAmount |-> stats.totalSaleAmount,
                             totalSoldItems |-> stats.totalSoldItems,
                             totalNotSoldItems |-> stats.totalNotSoldItems]]
               ELSE CombCaught(comb, "statistics")
    /\ stats' = StatsIdle
    /\ bar' = IF comb'.pc = "barChart" THEN BarBegin(comb.month) ELSE bar
    /\ UNCHANGED <<tz, store, seed, txn, pie>>

CombBarChart ==
    /\ comb.pc = "barChart"
    /\ bar.pc = "done"
    /\ pie.pc = "idle"
    /\ comb' = IF bar.status = 200
               THEN [CombGot(comb, "barChart") EXCEPT
                        !.barChart = bar.barChartData]
               ELSE CombCaught(comb, "barChart")
    /\ bar' = BarIdle
    /\ pie' = IF comb'.pc = "pieChart" THEN PieBegin(comb.month) ELSE pie
    /\ UNCHANGED <<tz, store, seed, txn, stats>>

CombPieChart ==
    /\ comb.pc = "pieChart"
    /\ pie.pc = "done"
    /\ comb' = CombSettled(
                  IF pie.status = 200
                  THEN [CombGot(comb, "pieChart") EXCEPT
                           !.pieChart = pie.pieChartData]
                  ELSE CombCaught(comb, "pieChart"))
    /\ pie' = PieIdle
    /\ UNCHANGED <<tz, store, seed, txn, stats, bar>>

(***************************************************************************)
(* Collections the checks start from.                                      *)
(***************************************************************************)
RECURSIVE Pick(_, _)
Pick(pool, idx) ==
    IF idx = {} THEN <<>>
    ELSE LET i == CHOOSE k \in idx : \A l \in idx : k <= l
         IN  <<pool[i]>> \o Pick(pool, idx \ {i})

\* the collections of at most MaxStore records of pool, in pool order
StoresOf(pool) ==
    {Pick(pool, idx) : idx \in {x \in SUBSET (1..Len(pool)) : Cardinality(x) <= MaxStore}}

Rec(id, title, description, price, dateOfSale, category, sold) ==
    [id |-> id, title |-> title, description |-> description, price |-> price,
     dateOfSale |-> dateOfSale, category |-> category, sold |-> sold]

March == [y |-> FirstYear, m |-> 3]

TxnPool ==
    << Rec(1, <<"A", "a", "2">>, <<"b">>, 20, At(FirstYear, 3, 10, 12), "men", TRUE),
       Rec(2, <<"a", "b">>, <<"A", "0">>, 2, At(FirstYear, 3, 30, 12), "men", FALSE),
       Rec(3, <<"b">>, <<"b">>, 0, At(FirstYear, 3, 10, 12), "women", TRUE),
       Rec(4, <<"2", "0", "0", "b">>, <<>>, 200, At(FirstYear, 3, 1, 0), "women", TRUE),
       Rec(5, <<"b", "a">>, <<"2">>, 22, At(FirstYear, 4, 2, 12), "men", FALSE) >>

StatsPool ==
    << Rec(1, <<"a">>, <<"b">>, 50, At(FirstYear, 3, 10, 12), "men", TRUE),
       Rec(2, <<"a">>, <<"b">>, 150, At(FirstYear, 3, 30, 12), "men", TRUE),
       Rec(3, <<"a">>, <<"b">>, 70, At(FirstYear, 3, 12, 12), "women", FALSE),
       Rec(4, <<"a">>, <<"b">>, 0, At(FirstYear, 3, 14, 12), "women", TRUE),
       Rec(5, <<"a">>, <<"b">>, 30, At(FirstYear, 4, 1, 0), "men", FALSE),
       Rec(6, <<"a">>, <<"b">>, 90, At(FirstYear, 2, 20, 12), "men", TRUE) >>

BarPool ==
    << Rec(1, <<"a">>, <<"b">>, 50, At(FirstYear, 3, 10, 12), "men", TRUE),
       Rec(2, <<"a">>, <<"b">>, 100, At(FirstYear, 3, 11, 12), "men", TRUE),
       Rec(3, <<"a">>, <<"b">>, 200, At(FirstYear, 3, 12, 12), "men", FALSE),
       Rec(4, <<"a">>, <<"b">>, 950, At(FirstYear, 3, 30, 12), "women", TRUE),
       Rec(5, <<"a">>, <<"b">>, 101, At(FirstYear, 4, 2, 12), "women", FALSE) >>

PageValues == 0..MaxPage

Quiet ==
    /\ seed.pc = "idle" /\ txn.pc = "idle" /\ stats.pc = "idle"
    /\ bar.pc = "idle" /\ pie.pc = "idle" /\ comb.pc = "idle"

InitRequests ==
    /\ seed = SeedIdle /\ txn = TxnIdle /\ stats = StatsIdle
    /\ bar = BarIdle /\ pie = PieIdle /\ comb = CombIdle

(***************************************************************************)
(* SpecWindow: every operation resolves every month selector, in every     *)
(* time zone.                                                              *)
(***************************************************************************)
InitWindow == tz \in TimeZones /\ store = <<>> /\ InitRequests

NextWindow ==
    \E month \in Months :
        \/ Quiet /\ TxnRequest(month, <<>>, DefaultPage, DefaultPerPage)
        \/ Quiet /\ StatsRequest(month)
        \/ Quiet /\ BarRequest(month)
        \/ Quiet /\ PieRequest(month)
        \/ Quiet /\ CombRequest(month)

SpecWindow == InitWindow /\ [][NextWindow]_vars

(***************************************************************************)
(* SpecTxn: one /api/transactions request over a collection that does not  *)
(* change.                                                                 *)
(***************************************************************************)
InitTxn == tz \in TimeZones /\ store \in StoresOf(TxnPool) /\ InitRequests

NextTxn ==
    \/ \E search \in SearchTexts, page \in PageValues, perPage \in PageValues :
          TxnRequest(March, search, page, perPage)
    \/ TxnFind
    \/ TxnCount
    \/ TxnFails

SpecTxn == InitTxn /\ [][NextTxn]_vars

(***************************************************************************)
(* SpecStats: one /api/statistics request over a collection that does not  *)
(* change.                                                                 *)
(***************************************************************************)
InitStats == tz \in TimeZones /\ store \in StoresOf(StatsPool) /\ InitRequests

NextStats ==
    \/ \E month \in {March, NextMonth(March)} : StatsRequest(month)
    \/ StatsAggregate
    \/ StatsCountSold
    \/ StatsCountNotSold
    \/ StatsFails

SpecStats == InitStats /\ [][NextStats]_vars

(***************************************************************************)
(* SpecBar: one /api/bar-chart request over a collection that does not     *)
(* change; its ten counts are answered in any order.                       *)
(***************************************************************************)
InitBar == tz \in TimeZones /\ store \in StoresOf(BarPool) /\ InitRequests

NextBar ==
    \/ BarRequest(March)
    \/ \E i \in Buckets : BarCount(i)
    \/ BarRespond
    \/ BarFails

SpecBar == InitBar /\ [][NextBar]_vars

(***************************************************************************)
(* Spec: /api/combined-data and /api/init served by the same process.      *)
(***************************************************************************)
Init == tz \in TimeZones /\ store \in {<<>>, SeedData} /\ InitRequests

Next ==
    \/ InitRequest
    \/ InitFetched
    \/ InitFetchFails
    \/ InitDelete
    \/ InitDeleteFails
    \/ InitInsert
    \/ InitInsertFails
    \/ CombRequest(March)
    \/ CombTransactions
    \/ CombStatistics
    \/ CombBarChart
    \/ CombPieChart
    \/ TxnFind
    \/ TxnCount
    \/ TxnFails
    \/ StatsAggregate
    \/ StatsCountSold
    \/ StatsCountNotSold
    \/ StatsFails
    \/ \E i \in Buckets : BarCount(i)
    \/ BarRespond
    \/ BarFails
    \/ PieAggregate
    \/ PieFails

Spec == Init /\ [][Next]_vars

(***************************************************************************)
(* The claims.                                                             *)
(***************************************************************************)
\* the first instant (00:00 UTC on the 1st) of the month a selector names
FirstInstant(month) == At(month.y, month.m, 1, 0)

Resolved(h) ==
    /\ h.startDate = FirstInstant(h.month)
    /\ h.endDate = FirstInstant(NextMonth(h.month))

\* C5: every operation resolves a month selector YYYY-MM to the window from
\* the first instant of that month to the first instant of the following
\* month, December rolling over to January of the next year, and all the
\* operations resolve the same selector to the same window.
C5_WindowIsTheCalendarMonth ==
    /\ txn.pc # "idle" => Resolved(txn)
    /\ stats.pc # "idle" => Resolved(stats)
    /\ bar.pc # "idle" => Resolved(bar)
    /\ pie.pc # "idle" => Resolved(pie)

\* the places of the collection that hold a record the request's filter takes
MatchingPlaces(t, coll) ==
    {i \in 1..Len(coll) : TxnMatches(coll[i], t.startDate, t.endDate, t.search)}

\* the page the handler returns for page number p of request t
PageOf(t, coll, p) ==
    TxnFound(TxnBegin(t.month, t.search, p, t.perPage), coll).transactions

RECURSIVE PagesUpTo(_, _, _)
PagesUpTo(t, coll, n) ==
    IF n = 0 THEN <<>> ELSE PagesUpTo(t, coll, n - 1) \o PageOf(t, coll, n)

PageCount(total, perPage) == (total + perPage - 1) \div perPage

Occurrences(s, r) == Cardinality({i \in 1..Len(s) : s[i] = r})

\* C1: over a collection that does not change, for any search and for page
\* and perPage >= 1, the returned total is the number of records the filter
\* takes, whatever page and perPage are, and pages 1..ceil(total/perPage)
\* put together hold every such record exactly once; the returned page is
\* its own slice of them.
C1_PaginationTotals ==
    (txn.pc = "done" /\ txn.status = 200 /\ txn.page >= 1 /\ txn.perPage >= 1) =>
        LET places == MatchingPlaces(txn, store)
            all == PagesUpTo(txn, store, PageCount(txn.total, txn.perPage))
            from == (txn.page - 1) * txn.perPage
        IN  /\ txn.total = Cardinality(places)
            /\ Len(all) = txn.total
            /\ \A i \in 1..Len(store) :
                  Occurrences(all, store[i]) = (IF i \in places THEN 1 ELSE 0)
            /\ Len(txn.transactions) <= txn.perPage
            /\ \A k \in 1..Len(txn.transactions) :
                  from + k <= Len(all) /\ txn.transactions[k] = all[from + k]
            /\ Len(txn.transactions) < txn.perPage =>
                  from + Len(txn.transactions) >= txn.total

\* C1's case: a request for the second page of two, answered
C1_Witness ==
    /\ txn.pc = "done" /\ txn.status = 200
    /\ txn.page = 2 /\ txn.perPage = 1 /\ txn.total = 2
    /\ Len(txn.transactions) = 1
    /\ txn.search # <<>>

\* the predicate as documented: in the window, and the search is empty, or
\* the title or the description matches it with case ignored, or the price
\* equals the search parsed as a number
DocumentedMatch(r, t) ==
    /\ InWindow(r, t.startDate, t.endDate)
    /\ \/ t.search = <<>>
       \/ RegexTest(t.search, r.title)
       \/ RegexTest(t.search, r.description)
       \/ (~ParseFloat(t.search).nan /\ r.price = ParseFloat(t.search).val)

\* C3: for every search and every record, List Transactions takes the record
\* exactly when its dateOfSale is in [start, end) and the search is empty or
\* matches the title or the description with case ignored or, parsed as a
\* number, equals the price; a record whose price equals the numeric value of
\* the search is always taken.
C3_FilterIsTheDocumentedPredicate ==
    (txn.pc = "done" /\ txn.status = 200 /\ txn.page >= 1 /\ txn.perPage >= 1) =>
        /\ \A i \in 1..Len(store) :
              TxnMatches(store[i], txn.startDate, txn.endDate, txn.search)
                  <=> DocumentedMatch(store[i], txn)
        /\ txn.total =
              Cardinality({i \in 1..Len(store) : DocumentedMatch(store[i], txn)})

\* C8: a non-positive page or perPage is treated as the default: no request
\* issues a negative skip or a non-positive limit to the store.
C8_NoNegativeSkipNoZeroLimit ==
    txn.pc # "idle" => (txn.skip >= 0 /\ txn.limit >= 1)

\* one pass over the collection that keeps the three figures together
RECURSIVE LinearScan(_, _, _, _)
LinearScan(coll, startDate, endDate, acc) ==
    IF coll = <<>> THEN acc
    ELSE LET r == Head(coll)
             next ==
                 IF ~InWindow(r, startDate, endDate) THEN acc
                 ELSE IF r.sold
                      THEN [acc EXCEPT !.amount = @ + r.price, !.sold = @ + 1]
                      ELSE [acc EXCEPT !.notSold = @ + 1]
         IN  LinearScan(Tail(coll), startDate, endDate, next)

InWindowCount(coll, startDate, endDate) ==
    Cardinality({i \in 1..Len(coll) : InWindow(coll[i], startDate, endDate)})

\* C6: over one state of the collection, Get statistics returns what a single
\* linear scan of the month window gives: totalSaleAmount the sum of price
\* over the sold records (0 when none is sold), totalSoldItems the number of
\* sold records, totalNotSoldItems the number of unsold ones, no record
\* counted twice and none missed between the two counts.
C6_StatisticsAreOneScan ==
    (stats.pc = "done" /\ stats.status = 200) =>
        LET scan == LinearScan(store, stats.startDate, stats.endDate,
                               [amount |-> 0, sold |-> 0, notSold |-> 0])
        IN  /\ stats.totalSaleAmount = scan.amount
            /\ stats.totalSoldItems = scan.sold
            /\ stats.totalNotSoldItems = scan.notSold
            /\ stats.totalSoldItems + stats.totalNotSoldItems =
                  InWindowCount(store, stats.startDate, stats.endDate)
            /\ stats.totalSoldItems = 0 => stats.totalSaleAmount = 0

\* C6's case: answered statistics of a month with a sold and an unsold record
C6_Witness ==
    /\ stats.pc = "done" /\ stats.status = 200
    /\ stats.totalSoldItems >= 1 /\ stats.totalNotSoldItems >= 1
    /\ stats.totalSaleAmount > 0

RECURSIVE SumCounts(_)
SumCounts(data) ==
    IF data = <<>> THEN 0 ELSE Head(data).count + SumCounts(Tail(data))

\* a price no bucket takes: from a multiple of 100 up to, not including, the
\* next bucket's lower end
InGap(price) == \E k \in 1..9 : 100 * k <= price /\ price < 100 * k + 1

PricedInWindow(coll, b, P(_)) ==
    Cardinality({i \in 1..Len(coll) :
                    InWindow(coll[i], b.startDate, b.endDate) /\ P(coll[i].price)})

\* C2 as stated: over a fixed window, the ten bucket counts and the number of
\* records of the window priced exactly 100 add up to the number of records
\* of the window: every price is in exactly one bucket or is exactly 100.
C2_CompleteButFor100 ==
    (bar.pc = "done" /\ bar.status = 200) =>
        LET Is100(price) == price = 100
        IN  SumCounts(bar.barChartData) + PricedInWindow(store, bar, Is100)
              = InWindowCount(store, bar.startDate, bar.endDate)

\* C2 as amended: over a fixed window and non-negative prices, the ten bucket
\* counts and the number of records of the window priced in one of the nine
\* gaps [100k, 100k + 1), k = 1..9, add up to the number of records of the
\* window: every price is in exactly one bucket or in a gap.
C2_CompleteButForGaps ==
    (bar.pc = "done" /\ bar.status = 200) =>
        /\ SumCounts(bar.barChartData) + PricedInWindow(store, bar, InGap)
              = InWindowCount(store, bar.startDate, bar.endDate)
        /\ \A i \in 1..Len(store) :
              Cardinality({b \in Buckets : InRange(store[i].price, priceRanges[b])})
                  = (IF InGap(store[i].price) THEN 0 ELSE 1)

\* C2's case: an answered histogram of a window with a record priced 100 and
\* one priced 200
C2_Witness ==
    /\ bar.pc = "done" /\ bar.status = 200
    /\ \E i, j \in 1..Len(store) :
          /\ store[i].price = 100 /\ InWindow(store[i], bar.startDate, bar.endDate)
          /\ store[j].price = 200 /\ InWindow(store[j], bar.startDate, bar.endDate)

BucketLabels ==
    << "0-100", "101-200", "201-300", "301-400", "401-500",
       "501-600", "601-700", "701-800", "801-900", "901-above" >>

\* C9: Get price histogram responds only after all ten counts have been
\* answered, and lists the buckets in declaration order, each count with its
\* own range label, whatever the order the counts were answered in; an
\* answered count is kept at its own bucket's place until then.
C9_BucketsInDeclaredOrder ==
    /\ \A i \in Buckets :
          bar.results[i].settled =>
              /\ bar.results[i].range = BucketLabels[i]
              /\ bar.results[i].count =
                    CountInRange(store, bar.startDate, bar.endDate, priceRanges[i])
    /\ (bar.pc = "done" /\ bar.status = 200) =>
          /\ AllSettled(bar)
          /\ Len(bar.barChartData) = Len(BucketLabels)
          /\ \A i \in 1..Len(BucketLabels) :
                /\ bar.barChartData[i].range = BucketLabels[i]
                /\ bar.barChartData[i].count =
                      CountInRange(store, bar.startDate, bar.endDate, priceRanges[i])

\* C9's case: an answered histogram with records in the first and last bucket
C9_Witness ==
    /\ bar.pc = "done" /\ bar.status = 200
    /\ bar.barChartData[1].count = 1
    /\ bar.barChartData[10].count = 1

\* C4: in every successful Combined Report response, the statistics' sold
\* and unsold counts add up to the total of the unfiltered transactions
\* branch, also when /api/init replaces the collection between the sub-calls.
C4_CombinedReportConsistent ==
    comb.status = 200 =>
        comb.statistics.totalSoldItems + comb.statistics.totalNotSoldItems
            = comb.transactions.total

\* C7: when one of the four sub-calls fails the combined call ends in an error
\* response with none of the four parts in it; a success response comes only
\* after all four sub-calls have succeeded, and holds all four parts.
C7_NoPartialPayload ==
    /\ comb.failed # {} =>
          (comb.pc = "done" /\ comb.status = 500 /\ comb.payload = {})
    /\ comb.status = 200 =>
          (comb.pc = "done" /\ comb.got = AllParts /\ comb.failed = {})
    /\ comb.payload \in {{}, AllParts}
    /\ comb.payload = AllParts => comb.status = 200

\* C7's case: the third sub-call failed after two had succeeded
C7_Witness ==
    /\ comb.pc = "done" /\ comb.status = 500
    /\ comb.failed = {"barChart"}
    /\ comb.got = {"transactions", "statistics"}

\* C10: /api/init touches the collection only after its fetch has succeeded:
\* a run whose fetch fails responds with an error and leaves the collection
\* as it was.
C10_DeleteOnlyAfterFetch ==
    [][ /\ ~seed.fetched => store' = store
        /\ store' # store => seed.pc \in {"delete", "insert"}
        /\ (seed.pc = "fetch" /\ seed'.pc = "done") =>
              (seed'.status = 500 /\ ~seed'.fetched) ]_vars

\* C10's case: a run whose fetch failed, over a collection that held records
C10_Witness ==
    /\ seed.pc = "done" /\ seed.status = 500 /\ ~seed.fetched
    /\ store = SeedData

====
